---------------------------- MODULE Spec2Model ----------------------------
(***************************************************************************)
(* Model of scripts/privacy-scan.py: file selection, the line scanner with *)
(* its three rule catalogs, de-duplication, severity filtering, the final  *)
(* sort, the two report formats and the exit status.                       *)
(*                                                                         *)
(* Text is modelled as TLA+ strings, character by character: Len, \o and   *)
(* SubSeq act on strings as they do on sequences.  The regular expressions *)
(* of the catalogs are kept as syntax trees and matched by a small         *)
(* backtracking matcher (Ends), so a rule fires in the model exactly when  *)
(* re.search fires on the same line.                                       *)
(***************************************************************************)
EXTENDS Integers, Sequences, FiniteSets, TLC

(***************************************************************************)
(* Strings                                                                 *)
(***************************************************************************)
Char(s, i) == SubSeq(s, i, i)

Chars(s) == {Char(s, i) : i \in 1..Len(s)}

UpperAlpha == "ABCDEFGHIJKLMNOPQRSTUVWXYZ"

LowerAlpha == "abcdefghijklmnopqrstuvwxyz"

Digits == "0123456789"

\* The characters the model's inputs are written in, in code-point order
\* (the order Python compares str values by).
CodePoints == "\t\n\r !\"#$%&'()*+,-./0123456789:;<=>?@ABCDEFGHIJKLMNOPQRSTUVWXYZ[\\]^_abcdefghijklmnopqrstuvwxyz{|}~"

IndexIn(alphabet, c) ==
    IF \E i \in 1..Len(alphabet) : Char(alphabet, i) = c
    THEN CHOOSE i \in 1..Len(alphabet) : Char(alphabet, i) = c
    ELSE 0

Ord(c) == IndexIn(CodePoints, c)

\* str.__lt__ and str.__le__: lexicographic by code point, a proper prefix first
RECURSIVE StrLess(_, _)
StrLess(a, b) ==
    IF Len(b) = 0 THEN FALSE
    ELSE IF Len(a) = 0 THEN TRUE
    ELSE IF Head(a) = Head(b) THEN StrLess(Tail(a), Tail(b))
    ELSE Ord(Head(a)) < Ord(Head(b))

StrLeq(a, b) == a = b \/ StrLess(a, b)

\* str.lower()
LowerChar(c) ==
    IF IndexIn(UpperAlpha, c) > 0 THEN Char(LowerAlpha, IndexIn(UpperAlpha, c)) ELSE c

RECURSIVE Lower(_)
Lower(s) == IF Len(s) = 0 THEN "" ELSE LowerChar(Head(s)) \o Lower(Tail(s))

\* str.upper()
UpperChar(c) ==
    IF IndexIn(LowerAlpha, c) > 0 THEN Char(UpperAlpha, IndexIn(LowerAlpha, c)) ELSE c

RECURSIVE Upper(_)
Upper(s) == IF Len(s) = 0 THEN "" ELSE UpperChar(Head(s)) \o Upper(Tail(s))

\* the whitespace of str.strip() and of \s
IsSpace(c) == c \in {" ", "\t", "\n", "\r", "\f"}

\* the characters of \w
IsWordChar(c) == c \in Chars(UpperAlpha) \cup Chars(LowerAlpha) \cup Chars(Digits) \cup {"_"}

RECURSIVE LStrip(_)
LStrip(s) == IF Len(s) > 0 /\ IsSpace(Head(s)) THEN LStrip(Tail(s)) ELSE s

RECURSIVE RStrip(_)
RStrip(s) ==
    IF Len(s) > 0 /\ IsSpace(Char(s, Len(s))) THEN RStrip(SubSeq(s, 1, Len(s) - 1)) ELSE s

\* str.strip()
Strip(s) == RStrip(LStrip(s))

\* str.startswith(prefix)
StartsWith(s, prefix) == Len(prefix) <= Len(s) /\ SubSeq(s, 1, Len(prefix)) = prefix

\* s[:n]
Truncate(s, n) == IF Len(s) <= n THEN s ELSE SubSeq(s, 1, n)

\* str.find(c) and str.rfind(c), 1-based, 0 when c does not occur
Find(s, c) ==
    IF \E i \in 1..Len(s) : Char(s, i) = c
    THEN CHOOSE i \in 1..Len(s) : Char(s, i) = c /\ \A j \in 1..(i - 1) : Char(s, j) # c
    ELSE 0

RFind(s, c) ==
    IF \E i \in 1..Len(s) : Char(s, i) = c
    THEN CHOOSE i \in 1..Len(s) : Char(s, i) = c /\ \A j \in (i + 1)..Len(s) : Char(s, j) # c
    ELSE 0

\* content.split('\n')
RECURSIVE Split(_, _)
Split(s, sep) ==
    IF Find(s, sep) = 0 THEN <<s>>
    ELSE <<SubSeq(s, 1, Find(s, sep) - 1)>> \o Split(SubSeq(s, Find(s, sep) + 1, Len(s)), sep)

\* '/'.join(parts), the str() of a relative path
RECURSIVE Join(_)
Join(parts) ==
    IF Len(parts) = 0 THEN ""
    ELSE IF Len(parts) = 1 THEN parts[1]
    ELSE parts[1] \o "/" \o Join(Tail(parts))

(***************************************************************************)
(* Regular expressions: the syntax the catalogs use, and re.search         *)
(***************************************************************************)
Lit(w) == [t |-> "lit", w |-> w]

Alt(rs) == [t |-> "alt", rs |-> rs]

Cat(rs) == [t |-> "cat", rs |-> rs]

Star(r) == [t |-> "star", r |-> r]

Opt(r) == [t |-> "opt", r |-> r]

OneOf(cs) == [t |-> "oneof", cs |-> cs]

NoneOf(cs) == [t |-> "noneof", cs |-> cs]

AnyChar == [t |-> "any"]

SpaceChar == [t |-> "space"]

WordChar == [t |-> "word"]

WordBoundary == [t |-> "wb"]

NotAhead(r) == [t |-> "notahead", r |-> r]

\* whether position i of s (1-based) holds a \w character
WordAt(s, i) == i >= 1 /\ i <= Len(s) /\ IsWordChar(Char(s, i))

\* one character at position i satisfying the class of re
ClassEnds(re, s, i) ==
    IF i > Len(s) THEN {}
    ELSE IF CASE re.t = "any" -> Char(s, i) # "\n"
              [] re.t = "space" -> IsSpace(Char(s, i))
              [] re.t = "word" -> IsWordChar(Char(s, i))
              [] re.t = "oneof" -> Char(s, i) \in Chars(re.cs)
              [] re.t = "noneof" -> Char(s, i) \notin Chars(re.cs)
         THEN {i + 1}
         ELSE {}

RECURSIVE Ends(_, _, _), CatEnds(_, _, _, _), StarEnds(_, _, _, _)
\* the positions just past every match of re that starts at position i of s
Ends(re, s, i) ==
    CASE re.t = "lit" ->
            IF i + Len(re.w) - 1 <= Len(s) /\ SubSeq(s, i, i + Len(re.w) - 1) = re.w
            THEN {i + Len(re.w)} ELSE {}
      [] re.t = "alt" -> UNION {Ends(re.rs[k], s, i) : k \in DOMAIN re.rs}
      [] re.t = "cat" -> CatEnds(re.rs, 1, s, {i})
      [] re.t = "star" -> StarEnds(re.r, s, {i}, {i})
      [] re.t = "opt" -> {i} \cup Ends(re.r, s, i)
      [] re.t = "wb" -> IF WordAt(s, i - 1) # WordAt(s, i) THEN {i} ELSE {}
      [] re.t = "notahead" -> IF Ends(re.r, s, i) = {} THEN {i} ELSE {}
      [] OTHER -> ClassEnds(re, s, i)

CatEnds(rs, k, s, from) ==
    IF k > Len(rs) \/ from = {} THEN from
    ELSE CatEnds(rs, k + 1, s, UNION {Ends(rs[k], s, i) : i \in from})

StarEnds(r, s, frontier, seen) ==
    IF frontier = {} THEN seen
    ELSE LET more == UNION {Ends(r, s, i) : i \in frontier}
         IN  StarEnds(r, s, more \ seen, seen \cup more)

\* re.search(pattern, s) is not None
Search(re, s) == \E i \in 1..(Len(s) + 1) : Ends(re, s, i) # {}

\* (w1|w2|...)
Words(ws) == Alt([k \in DOMAIN ws |-> Lit(ws[k])])

\* r+
Plus(r) == Cat(<<r, Star(r)>>)

(***************************************************************************)
(* The rule catalogs                                                       *)
(***************************************************************************)
CRITICAL == "critical"

HIGH == "high"

MEDIUM == "medium"

LOW == "low"

\* a field rule: r'\b(w1|w2|...)\b', its PII type and its severity
FieldRule(ws, pii_type, severity) ==
    [pattern |-> Cat(<<WordBoundary, Words(ws), WordBoundary>>),
     pii_type |-> pii_type, severity |-> severity]

PII_FIELD_PATTERNS ==
    << FieldRule(<<"ssn", "social_security", "social_security_number">>, "SSN", CRITICAL),
       FieldRule(<<"credit_card", "card_number", "cc_number", "ccn">>, "Credit Card", CRITICAL),
       FieldRule(<<"password", "passwd", "pwd", "secret", "api_key", "apikey", "token">>,
                 "Credential", CRITICAL),
       FieldRule(<<"passport", "passport_number", "passport_no">>, "Passport", CRITICAL),
       FieldRule(<<"driver_license", "drivers_license", "dl_number">>, "Driver License", CRITICAL),
       FieldRule(<<"bank_account", "account_number", "routing_number", "iban">>,
                 "Financial", CRITICAL),
       FieldRule(<<"email", "email_address", "e_mail">>, "Email", HIGH),
       FieldRule(<<"phone", "phone_number", "mobile", "telephone", "cell">>, "Phone", HIGH),
       FieldRule(<<"address", "street_address", "home_address", "mailing_address">>,
                 "Address", HIGH),
       FieldRule(<<"birth_date", "dob", "date_of_birth", "birthday">>, "Birth Date", HIGH),
       FieldRule(<<"first_name", "last_name", "full_name", "surname", "given_name">>,
                 "Name", MEDIUM),
       FieldRule(<<"ip_address", "ip_addr", "client_ip", "user_ip">>, "IP Address", MEDIUM),
       FieldRule(<<"location", "latitude", "longitude", "geo_location", "coordinates">>,
                 "Location", MEDIUM),
       FieldRule(<<"gender", "sex", "ethnicity", "race", "religion">>, "Demographic", MEDIUM),
       FieldRule(<<"medical", "health", "diagnosis", "prescription", "condition">>,
                 "Health", CRITICAL),
       FieldRule(<<"biometric", "fingerprint", "face_id", "facial", "retina">>,
                 "Biometric", CRITICAL) >>

\* a log rule: r'(<call>)\s*\([^)]*\b(email|phone|ssn|password|credit_card|address)'
LogRule(call) ==
    Cat(<<call, Star(SpaceChar), Lit("("), Star(NoneOf(")")), WordBoundary,
          Words(<<"email", "phone", "ssn", "password", "credit_card", "address">>)>>)

LOG_PATTERNS ==
    << LogRule(Cat(<<Lit("console."), Words(<<"log", "info", "warn", "error", "debug">>)>>)),
       LogRule(Cat(<<Lit("logger."), Words(<<"log", "info", "warn", "error", "debug">>)>>)),
       LogRule(Cat(<<Lit("log."), Words(<<"info", "warn", "error", "debug">>)>>)),
       LogRule(Words(<<"print", "println", "printf">>)),
       LogRule(Cat(<<Lit("logging."), Words(<<"info", "warn", "error", "debug">>)>>)) >>

UNENCRYPTED_PATTERNS ==
    << Cat(<<Plus(WordChar), Star(SpaceChar), Lit("="), Star(SpaceChar),
             Words(<<"request", "req">>), Lit("."),
             Words(<<"body", "form", "params", "query">>), Star(SpaceChar), Lit("["),
             Star(SpaceChar), Opt(OneOf("'\"")),
             Words(<<"ssn", "password", "credit_card", "card_number">>)>>),
       Cat(<<Words(<<"db", "database", "store", "save">>), Star(SpaceChar), Lit("."),
             Star(SpaceChar), Plus(WordChar), Star(SpaceChar), Lit("("),
             Star(NoneOf(")")), WordBoundary, Words(<<"ssn", "password", "credit_card">>),
             WordBoundary, Star(NoneOf(")")), Lit(")"), Star(SpaceChar),
             NotAhead(Cat(<<Star(AnyChar), Lit("encrypt")>>))>>) >>

SCAN_EXTENSIONS ==
    {".ts", ".tsx", ".js", ".jsx", ".py", ".java", ".cs", ".go", ".rb", ".php",
     ".swift", ".kt", ".scala", ".rs", ".cpp", ".c", ".h"}

SKIP_DIRS ==
    {"node_modules", "vendor", "venv", ".venv", "__pycache__",
     "dist", "build", ".git", ".svn", "target", "bin", "obj"}

\* ['critical', 'high', 'medium', 'low'].index(severity), 0-based
severity_order == <<CRITICAL, HIGH, MEDIUM, LOW>>

SeverityIndex(severity) ==
    (CHOOSE i \in 1..Len(severity_order) : severity_order[i] = severity) - 1

(***************************************************************************)
(* The line scanner                                                        *)
(***************************************************************************)
\* the length line.strip()[:100] cuts the snippet to
SnippetMax == 100

Finding(file, line, severity, category, description, code_snippet, recommendation) ==
    [file |-> file, line |-> line, severity |-> severity, category |-> category,
     description |-> description, code_snippet |-> code_snippet,
     recommendation |-> recommendation]

\* the concatenation of the sequences parts[1], parts[2], ...
RECURSIVE Flatten(_)
Flatten(parts) == IF parts = <<>> THEN <<>> ELSE Head(parts) \o Flatten(Tail(parts))

\* IsCommentLine testing the line as read, not its stripped form
IsCommentLine_no_strip(line) ==
    StartsWith(line, "//") \/ StartsWith(line, "#") \/ StartsWith(line, "*")

\* the "Skip comments" test on a line
IsCommentLine(line) ==
    LET stripped == Strip(line)
    IN  StartsWith(stripped, "//") \/ StartsWith(stripped, "#") \/ StartsWith(stripped, "*")

\* the findings of the PII_FIELD_PATTERNS loop for one line
FieldFindings(file, line_num, line) ==
    LET hit(k) ==
            IF Search(PII_FIELD_PATTERNS[k].pattern, Lower(line))
            THEN << Finding(file, line_num, PII_FIELD_PATTERNS[k].severity, "pii_field",
                            "Potential " \o PII_FIELD_PATTERNS[k].pii_type \o " field detected",
                            Truncate(Strip(line), SnippetMax),
                            "Ensure " \o PII_FIELD_PATTERNS[k].pii_type
                                \o " data is encrypted and access is logged") >>
            ELSE <<>>
    IN  Flatten([k \in 1..Len(PII_FIELD_PATTERNS) |-> hit(k)])

\* LogFindings emitting severity medium
LogFindings_medium(file, line_num, line) ==
    LET hit(k) ==
            IF Search(LOG_PATTERNS[k], Lower(line))
            THEN << Finding(file, line_num, MEDIUM, "pii_in_logs",
                            "Potential PII being logged",
                            Truncate(Strip(line), SnippetMax),
                            "Remove PII from log statements or use masking") >>
            ELSE <<>>
    IN  Flatten([k \in 1..Len(LOG_PATTERNS) |-> hit(k)])

\* the findings of the LOG_PATTERNS loop for one line
LogFindings(file, line_num, line) ==
    LET hit(k) ==
            IF Search(LOG_PATTERNS[k], Lower(line))
            THEN << Finding(file, line_num, HIGH, "pii_in_logs",
                            "Potential PII being logged",
                            Truncate(Strip(line), SnippetMax),
                            "Remove PII from log statements or use masking") >>
            ELSE <<>>
    IN  Flatten([k \in 1..Len(LOG_PATTERNS) |-> hit(k)])

\* the findings of the UNENCRYPTED_PATTERNS loop for one line
UnencryptedFindings(file, line_num, line) ==
    LET hit(k) ==
            IF Search(UNENCRYPTED_PATTERNS[k], Lower(line))
            THEN << Finding(file, line_num, CRITICAL, "unencrypted_pii",
                            "Potential unencrypted PII storage",
                            Truncate(Strip(line), SnippetMax),
                            "Encrypt sensitive data before storage") >>
            ELSE <<>>
    IN  Flatten([k \in 1..Len(UNENCRYPTED_PATTERNS) |-> hit(k)])

\* one iteration of the loop over the lines of a file
ScanLine(file, line_num, line) ==
    IF IsCommentLine(line) THEN <<>>
    ELSE FieldFindings(file, line_num, line) \o LogFindings(file, line_num, line)
             \o UnencryptedFindings(file, line_num, line)

\* the body of scan_file once the content is read
ScanContent(file, content) ==
    LET lines == Split(content, "\n")
        at(n) == ScanLine(file, n, lines[n])
    IN  Flatten([k \in 1..Len(lines) |-> at(k)])

(***************************************************************************)
(* Paths and the file selector                                             *)
(***************************************************************************)
\* A path is the sequence of its parts (Path.parts); str(path) joins them.
PathName(path) == path[Len(path)]

\* Path.suffix: from the last dot of the name, unless that dot is the
\* first or the last character of the name
Suffix(path) ==
    LET name == PathName(path)
        i == RFind(name, ".")
    IN  IF 1 < i /\ i < Len(name) THEN SubSeq(name, i, Len(name)) ELSE ""

\* should_scan_file without the loop over path.parts
should_scan_file_any_dir(path) == Lower(Suffix(path)) \in SCAN_EXTENSIONS

should_scan_file(path) ==
    /\ Lower(Suffix(path)) \in SCAN_EXTENSIONS
    /\ \A k \in 1..Len(path) : path[k] \notin SKIP_DIRS

\* whether path lies below the directory dir
IsBelow(path, dir) == Len(dir) < Len(path) /\ SubSeq(path, 1, Len(dir)) = dir

(***************************************************************************)
(* The files a run may meet                                                *)
(***************************************************************************)
FileContents ==
    << [path |-> <<"proj", "a.py">>,
        content |-> "name = first_name, diagnosis"],
       [path |-> <<"proj", "B.PY">>,
        content |-> "console.log(\"user email:\", email)\ndb.save(ssn)\n"],
       [path |-> <<"proj", "node_modules", "c.js">>,
        content |-> "password = 1"],
       [path |-> <<"proj", "src", "d.py">>,
        content |-> "  # password\n\t// ssn\n * email = console.log(email)"],
       [path |-> <<"proj", "notes.txt">>,
        content |-> "ssn"],
       [path |-> <<"proj", "src", "e.ts">>,
        content |-> "Gender = 1\nlogger.info(print(Phone)) # log\nlet y = 2"],
       [path |-> <<"proj", "Build", "g.go">>,
        content |-> "ssn, password\n/ # db.save(x, password, 1) encrypt\nx = req.body['ssn']"] >>

AllPaths == {FileContents[k].path : k \in DOMAIN FileContents}

Content(path) ==
    FileContents[CHOOSE k \in DOMAIN FileContents : FileContents[k].path = path].content

\* the path arguments of a run: directories, every file, and a path that is not there
Roots == {<<"proj">>, <<"proj", "src">>, <<"missing">>} \cup AllPaths

\* the number of files of the tree a run is started on
MaxFiles == 2

Severities == {CRITICAL, HIGH, MEDIUM, LOW}

Categories == {"pii_field", "pii_in_logs", "unencrypted_pii"}

(***************************************************************************)
(* The post-processor                                                      *)
(***************************************************************************)
Key(f) == <<f.file, f.line, f.category>>

\* deduplicate_findings with the category left out of the key
RECURSIVE deduplicate_findings_by_line(_)
deduplicate_findings_by_line(fs) ==
    IF fs = <<>> THEN <<>>
    ELSE LET unique == deduplicate_findings_by_line(SubSeq(fs, 1, Len(fs) - 1))
             f == fs[Len(fs)]
         IN  IF \E k \in 1..Len(unique) : unique[k].file = f.file /\ unique[k].line = f.line
             THEN unique
             ELSE Append(unique, f)

RECURSIVE deduplicate_findings(_)
deduplicate_findings(fs) ==
    IF fs = <<>> THEN <<>>
    ELSE LET unique == deduplicate_findings(SubSeq(fs, 1, Len(fs) - 1))
             f == fs[Len(fs)]
         IN  IF \E k \in 1..Len(unique) : Key(unique[k]) = Key(f)
             THEN unique
             ELSE Append(unique, f)

\* filter_by_severity with < in place of <=
filter_by_severity_strict(fs, min_severity) ==
    LET min_index == SeverityIndex(Lower(min_severity))
        keep(f) == SeverityIndex(f.severity) < min_index
    IN  SelectSeq(fs, keep)

filter_by_severity(fs, min_severity) ==
    LET min_index == SeverityIndex(Lower(min_severity))
        keep(f) == SeverityIndex(f.severity) <= min_index
    IN  SelectSeq(fs, keep)

\* SortKeyLess with the line left out of the key
SortKeyLess_no_line(a, b) ==
    \/ SeverityIndex(a.severity) < SeverityIndex(b.severity)
    \/ /\ SeverityIndex(a.severity) = SeverityIndex(b.severity)
       /\ StrLess(a.file, b.file)

\* the order of the tuples (severity index, file, line) the final sort compares
SortKeyLess(a, b) ==
    \/ SeverityIndex(a.severity) < SeverityIndex(b.severity)
    \/ /\ SeverityIndex(a.severity) = SeverityIndex(b.severity)
       /\ \/ StrLess(a.file, b.file)
          \/ a.file = b.file /\ a.line < b.line

LineLess(a, b) == a.line < b.line

\* sorted is in ascending order and x comes after it in the list being
\* sorted: x goes before the first element that is greater than x, so after
\* every element that ties with it (list.sort and sorted are stable)
InsertAt(sorted, x, greater) ==
    LET at == IF greater = {} THEN Len(sorted) + 1
              ELSE CHOOSE k \in greater : \A j \in greater : k <= j
    IN  SubSeq(sorted, 1, at - 1) \o <<x>> \o SubSeq(sorted, at, Len(sorted))

InsertByKey(sorted, x) ==
    InsertAt(sorted, x, {k \in 1..Len(sorted) : SortKeyLess(x, sorted[k])})

InsertByLine(sorted, x) ==
    InsertAt(sorted, x, {k \in 1..Len(sorted) : LineLess(x, sorted[k])})

\* findings.sort(key=lambda f: (index of f.severity, f.file, f.line))
RECURSIVE SortFindings(_)
SortFindings(fs) ==
    IF fs = <<>> THEN <<>>
    ELSE InsertByKey(SortFindings(SubSeq(fs, 1, Len(fs) - 1)), fs[Len(fs)])

\* sorted(file_findings, key=lambda x: x.line)
RECURSIVE SortByLine(_)
SortByLine(fs) ==
    IF fs = <<>> THEN <<>>
    ELSE InsertByLine(SortByLine(SubSeq(fs, 1, Len(fs) - 1)), fs[Len(fs)])

(***************************************************************************)
(* The report renderer.  The pictographs of the text report are written as *)
(* bracketed tags: [ok], [file], [critical] ... , [failed], [warn].        *)
(***************************************************************************)
\* the width of the "=" rules of the text report
RuleWidth == 60

RECURSIVE Repeat(_, _)
Repeat(c, n) == IF n = 0 THEN "" ELSE c \o Repeat(c, n - 1)

CountSeverity(fs, sev) == Cardinality({k \in 1..Len(fs) : fs[k].severity = sev})

FAILED_LINE == "[failed] PRIVACY SCAN FAILED - Critical/High issues found"

WARNINGS_LINE == "[warn] PRIVACY SCAN PASSED WITH WARNINGS"

NO_ISSUES_LINE == "[ok] No privacy issues found."

\* sorted(by_file.items()): the files of the findings in ascending order
SortedFiles(fs) ==
    LET files == {fs[k].file : k \in 1..Len(fs)}
        rank(f) == Cardinality({g \in files : StrLess(g, f)}) + 1
    IN  [k \in 1..Cardinality(files) |-> CHOOSE f \in files : rank(f) = k]

sev_icon(severity) ==
    IF severity \in Severities THEN "[" \o severity \o "]" ELSE "[?]"

\* the lines of one file's block of the text report
FileBlock(fs, file_path) ==
    LET ofFile(f) == f.file = file_path
        file_findings == SortByLine(SelectSeq(fs, ofFile))
        entry(k) ==
            << "  " \o sev_icon(file_findings[k].severity) \o " Line "
                   \o ToString(file_findings[k].line) \o ": " \o file_findings[k].description,
               "     " \o file_findings[k].code_snippet,
               "     -> " \o file_findings[k].recommendation >>
    IN  <<"[file] " \o file_path>> \o Flatten([k \in 1..Len(file_findings) |-> entry(k)]) \o <<"">>

\* format_text_report: the lines that '\n'.join puts together
format_text_report(fs) ==
    IF fs = <<>> THEN <<NO_ISSUES_LINE>>
    ELSE LET by_severity == [sev \in Severities |-> CountSeverity(fs, sev)]
             summary(k) ==
                 IF by_severity[severity_order[k]] > 0
                 THEN <<"  " \o Upper(severity_order[k]) \o ": "
                            \o ToString(by_severity[severity_order[k]])>>
                 ELSE <<>>
             files == SortedFiles(fs)
             block(k) == FileBlock(fs, files[k])
             critical_count == by_severity[CRITICAL]
             high_count == by_severity[HIGH]
         IN  <<Repeat("=", RuleWidth), "Privacy Scan Results", Repeat("=", RuleWidth), "">>
                 \o <<"Summary:">> \o Flatten([k \in 1..Len(severity_order) |-> summary(k)]) \o <<"">>
                 \o Flatten([k \in 1..Len(files) |-> block(k)])
                 \o << IF critical_count > 0 \/ high_count > 0
                       THEN FAILED_LINE ELSE WARNINGS_LINE >>

\* format_json_report: the object that json.dumps writes out
format_json_report(fs) ==
    [summary |-> [total |-> Len(fs),
                  critical |-> CountSeverity(fs, CRITICAL),
                  high |-> CountSeverity(fs, HIGH),
                  medium |-> CountSeverity(fs, MEDIUM),
                  low |-> CountSeverity(fs, LOW)],
     passed |-> \A k \in 1..Len(fs) : fs[k].severity \notin {CRITICAL, HIGH},
     findings |-> fs]

\* ExitStatus counting the critical findings only
ExitStatus_critical_only(fs) ==
    LET critical_high == Cardinality({k \in 1..Len(fs) : fs[k].severity \in {CRITICAL}})
    IN  IF critical_high > 0 THEN 1 ELSE 0

\* sys.exit(1 if critical_high > 0 else 0)
ExitStatus(fs) ==
    LET critical_high == Cardinality({k \in 1..Len(fs) : fs[k].severity \in {CRITICAL, HIGH}})
    IN  IF critical_high > 0 THEN 1 ELSE 0

(***************************************************************************)
(* A run of main                                                           *)
(***************************************************************************)
VARIABLES
    tree,          \* the paths of the regular files that exist
    unreadable,    \* the files of tree whose read_text raises
    args,          \* the parsed command line: path, output, severity
    pc,            \* the position of main
    pending,       \* the files get_files has still to yield
    all_findings,  \* main's all_findings
    findings,      \* main's findings
    stdout,        \* what was printed to standard output
    stderr,        \* what was printed to standard error
    exit_code      \* the status passed to sys.exit, -1 while running

vars == <<tree, unreadable, args, pc, pending, all_findings, findings,
          stdout, stderr, exit_code>>

\* the findings scan_file's loops give for each file that can be read
Scanned == [path \in AllPaths |-> ScanContent(Join(path), Content(path))]

\* scan_file whose except branch returns what the file would have given
scan_file_partial(file_path) ==
    IF file_path \in unreadable
    THEN [findings |-> Scanned[file_path],
          warnings |-> <<"Warning: Could not read " \o Join(file_path)>>]
    ELSE [findings |-> Scanned[file_path], warnings |-> <<>>]

\* scan_file: the findings, and the warning of the except branch (the text
\* of the exception, which follows the path in the warning, is left out)
scan_file(file_path) ==
    IF file_path \in unreadable
    THEN [findings |-> <<>>,
          warnings |-> <<"Warning: Could not read " \o Join(file_path)>>]
    ELSE [findings |-> Scanned[file_path], warnings |-> <<>>]

\* get_files: the set of the paths it yields
get_files(path) ==
    IF path \in tree
    THEN IF should_scan_file(path) THEN {path} ELSE {}
    ELSE {file_path \in tree : IsBelow(file_path, path) /\ should_scan_file(file_path)}

Init ==
    /\ tree \in {t \in SUBSET AllPaths : Cardinality(t) <= MaxFiles}
    /\ unreadable \in SUBSET tree
    /\ args \in [path : Roots, output : {"text", "json"}, severity : Severities]
    /\ pc = "start"
    /\ pending = {}
    /\ all_findings = <<>>
    /\ findings = <<>>
    /\ stdout = <<>>
    /\ stderr = <<>>
    /\ exit_code = -1

\* for file_path in get_files(args.path): the generator is started
GetFiles ==
    /\ pc = "start"
    /\ pending' = get_files(args.path)
    /\ pc' = "scan"
    /\ UNCHANGED <<tree, unreadable, args, all_findings, findings, stdout, stderr, exit_code>>

\* one iteration: all_findings.extend(scan_file(file_path)); rglob yields the
\* files in the order the directories list them, which is any order
ScanFile ==
    /\ pc = "scan"
    /\ \E file_path \in pending :
          /\ all_findings' = all_findings \o scan_file(file_path).findings
          /\ stderr' = stderr \o scan_file(file_path).warnings
          /\ pending' = pending \ {file_path}
    /\ UNCHANGED <<tree, unreadable, args, pc, findings, stdout, exit_code>>

\* "Process findings": de-duplicate, filter, sort
Process ==
    /\ pc = "scan"
    /\ pending = {}
    /\ findings' = SortFindings(filter_by_severity(deduplicate_findings(all_findings),
                                                   args.severity))
    /\ pc' = "output"
    /\ UNCHANGED <<tree, unreadable, args, pending, all_findings, stdout, stderr, exit_code>>

\* "Output": print the report in the format asked for
Output ==
    /\ pc = "output"
    /\ stdout' = IF args.output = "json"
                 THEN Append(stdout, [format |-> "json", json |-> format_json_report(findings)])
                 ELSE Append(stdout, [format |-> "text", text |-> format_text_report(findings)])
    /\ pc' = "exit"
    /\ UNCHANGED <<tree, unreadable, args, pending, all_findings, findings, stderr, exit_code>>

\* "Exit code"
Exit ==
    /\ pc = "exit"
    /\ exit_code' = ExitStatus(findings)
    /\ pc' = "done"
    /\ UNCHANGED <<tree, unreadable, args, pending, all_findings, findings, stdout, stderr>>

Next == GetFiles \/ ScanFile \/ Process \/ Output \/ Exit

Spec == Init /\ [][Next]_vars

(***************************************************************************)
(* The post-processor's three functions on arbitrary finding sequences     *)
(***************************************************************************)
\* the longest finding sequence the functions are applied to
MaxFindings == 3

\* the places (file, line) of the sample findings
SampleSites == {<<"a.py", 1>>, <<"a.py", 2>>, <<"B.py", 1>>}

SampleKinds ==
    {<<CRITICAL, "pii_field">>, <<HIGH, "pii_field">>, <<MEDIUM, "pii_field">>,
     <<LOW, "pii_field">>, <<CRITICAL, "unencrypted_pii">>}

SampleFindings ==
    {Finding(site[1], site[2], kind[1], kind[2], "description", "snippet", "recommendation") :
        site \in SampleSites, kind \in SampleKinds}

PostInit ==
    /\ tree = {}
    /\ unreadable = {}
    /\ args = [path |-> <<"proj">>, output |-> "text", severity |-> LOW]
    /\ pc = "input"
    /\ pending = {}
    /\ all_findings \in UNION {[1..n -> SampleFindings] : n \in 0..MaxFindings}
    /\ findings = <<>>
    /\ stdout = <<>>
    /\ stderr = <<>>
    /\ exit_code = -1

\* findings = deduplicate_findings(all_findings)
Deduplicate ==
    /\ pc = "input"
    /\ findings' = deduplicate_findings(all_findings)
    /\ pc' = "deduplicated"
    /\ UNCHANGED <<tree, unreadable, args, pending, all_findings, stdout, stderr, exit_code>>

\* findings = filter_by_severity(all_findings, severity)
Filter ==
    /\ pc = "input"
    /\ \E severity \in Severities :
          /\ args' = [args EXCEPT !.severity = severity]
          /\ findings' = filter_by_severity(all_findings, severity)
    /\ pc' = "filtered"
    /\ UNCHANGED <<tree, unreadable, pending, all_findings, stdout, stderr, exit_code>>

\* findings = sorted(all_findings, key=...)
Sort ==
    /\ pc = "input"
    /\ findings' = SortFindings(all_findings)
    /\ pc' = "sorted"
    /\ UNCHANGED <<tree, unreadable, args, pending, all_findings, stdout, stderr, exit_code>>

PostNext == Deduplicate \/ Filter \/ Sort

PostSpec == PostInit /\ [][PostNext]_vars

(***************************************************************************)
(* Properties                                                              *)
(***************************************************************************)
IsCriticalOrHigh(f) == f.severity = "critical" \/ f.severity = "high"

NoCriticalOrHigh(fs) == \A k \in 1..Len(fs) : ~IsCriticalOrHigh(fs[k])

\* critical=0, high=1, medium=2, low=3
Rank(severity) ==
    CASE severity = "critical" -> 0
      [] severity = "high" -> 1
      [] severity = "medium" -> 2
      [] severity = "low" -> 3

\* the elements of s at the positions in keep, in the order of s
RECURSIVE Restrict(_, _)
Restrict(s, keep) ==
    IF s = <<>> THEN <<>>
    ELSE LET front == Restrict(SubSeq(s, 1, Len(s) - 1), keep \ {Len(s)})
         IN  IF Len(s) \in keep THEN Append(front, s[Len(s)]) ELSE front

LastLine(text) == text[Len(text)]

\* C1: once a run is over, the JSON report's passed flag, the absence of the
\* FAILED status line at the end of the text report and exit status 0 all hold
\* exactly when no final finding is critical or high (otherwise: passed false,
\* FAILED line last, exit status 1); the report printed is the one of the
\* final findings in the format asked for.
C1_VerdictsAgree ==
    pc = "done" =>
        LET ok == NoCriticalOrHigh(findings)
        IN  /\ format_json_report(findings).passed = ok
            /\ (LastLine(format_text_report(findings)) # FAILED_LINE) = ok
            /\ exit_code = (IF ok THEN 0 ELSE 1)
            /\ Len(stdout) = 1
            /\ stdout[1].format = args.output
            /\ stdout[1].format = "json" => stdout[1].json.passed = ok
            /\ stdout[1].format = "text" => (LastLine(stdout[1].text) # FAILED_LINE) = ok

\* C1 witnesses: a finished run whose worst final finding is high, printed as text
C1_Witness ==
    /\ pc = "done"
    /\ exit_code = 1
    /\ \E k \in 1..Len(findings) : findings[k].severity = "high"
    /\ \A k \in 1..Len(findings) : findings[k].severity # "critical"
    /\ stdout[1].format = "text"
    /\ LastLine(stdout[1].text) = FAILED_LINE

\* whether the path argument names a regular file or a directory of the tree
RootExists == args.path \in tree \/ \E file_path \in tree : IsBelow(file_path, args.path)

\* C2: a run whose root path does not exist prints no report and does not
\* end with exit status 0.
C2_MissingRootIsUsageError ==
    ~RootExists => stdout = <<>> /\ exit_code # 0

SameTriple(a, b) == a.file = b.file /\ a.line = b.line /\ a.category = b.category

FirstOccurrences(fs) ==
    {k \in 1..Len(fs) : \A j \in 1..(k - 1) : ~SameTriple(fs[j], fs[k])}

\* C3: deduplicate_findings returns the input restricted to the first
\* occurrence of each (file, line, category) triple, in input order; no two
\* findings of the result share a triple; applying it again changes nothing.
C3_DedupFirstOccurrences ==
    pc = "deduplicated" =>
        /\ findings = Restrict(all_findings, FirstOccurrences(all_findings))
        /\ \A i, j \in 1..Len(findings) : i # j => ~SameTriple(findings[i], findings[j])
        /\ deduplicate_findings(findings) = findings

\* C3 witness: a duplicate that is not the first of the input was dropped and
\* a later distinct finding kept
C3_Witness ==
    /\ pc = "deduplicated"
    /\ Len(all_findings) = 3
    /\ Len(findings) = 2
    /\ SameTriple(all_findings[1], all_findings[2])
    /\ all_findings[1].severity # all_findings[2].severity
    /\ findings[2] = all_findings[3]

\* C4: filter_by_severity(fs, s) is fs restricted, in order, to the findings
\* whose rank is at most the rank of s; filtering the result by s again
\* changes nothing; filtering by low returns fs.
C4_FilterByRank ==
    pc = "filtered" =>
        /\ findings = Restrict(all_findings,
                               {k \in 1..Len(all_findings) :
                                   Rank(all_findings[k].severity) <= Rank(args.severity)})
        /\ filter_by_severity(findings, args.severity) = findings
        /\ args.severity = "low" => findings = all_findings

\* C4 witness: a threshold that keeps a finding of its own rank and drops another
C4_Witness ==
    /\ pc = "filtered"
    /\ args.severity = "high"
    /\ Len(all_findings) = 3
    /\ Len(findings) = 2
    /\ \E k \in 1..Len(findings) : findings[k].severity = "high"
    /\ all_findings[2].severity = "medium"

SameSortKey(a, b) == a.severity = b.severity /\ a.file = b.file /\ a.line = b.line

Occurrences(fs, f) == Cardinality({k \in 1..Len(fs) : fs[k] = f})

InOrder(a, b) ==
    \/ Rank(a.severity) < Rank(b.severity)
    \/ /\ a.severity = b.severity
       /\ \/ a.file # b.file /\ StrLeq(a.file, b.file)
          \/ a.file = b.file /\ a.line <= b.line

\* C5: the sorted sequence is a permutation of the sequence it was given, with
\* severities non-decreasing in rank, files non-decreasing within a severity,
\* lines non-decreasing within a severity and file, and findings that tie on
\* all three in the order they had before the sort.
C5_SortedStable ==
    pc = "sorted" =>
        /\ Len(findings) = Len(all_findings)
        /\ \A k \in 1..Len(all_findings) :
              Occurrences(findings, all_findings[k]) = Occurrences(all_findings, all_findings[k])
        /\ \A k \in 1..(Len(findings) - 1) : InOrder(findings[k], findings[k + 1])
        /\ \A k \in 1..Len(all_findings) :
              Restrict(findings, {i \in 1..Len(findings) :
                                     SameSortKey(findings[i], all_findings[k])})
                  = Restrict(all_findings, {i \in 1..Len(all_findings) :
                                     SameSortKey(all_findings[i], all_findings[k])})

\* C5 witness: the sort moved a finding forward past another one, and two
\* findings that tie on the key stayed in their order
C5_Witness ==
    /\ pc = "sorted"
    /\ Len(all_findings) = 3
    /\ findings[1] = all_findings[3]
    /\ findings[2] = all_findings[1]
    /\ findings[3] = all_findings[2]
    /\ SameSortKey(all_findings[1], all_findings[2])
    /\ all_findings[1] # all_findings[2]
    /\ all_findings[3].severity = all_findings[1].severity
    /\ StrLess(all_findings[3].file, all_findings[1].file)

\* the path whose str() a finding carries, and the lines of that file
FileNames == [file \in {Join(path) : path \in AllPaths} |->
                 CHOOSE path \in AllPaths : Join(path) = file]

PathOf(file) == FileNames[file]

FileLines == [path \in AllPaths |-> Split(Content(path), "\n")]

LinesOf(path) == FileLines[path]

AllLines == UNION {{LinesOf(path)[n] : n \in 1..Len(LinesOf(path))} : path \in AllPaths}

\* the findings of fs that carry the file of path
OfFile(fs, path) == Restrict(fs, {k \in 1..Len(fs) : fs[k].file = Join(path)})

\* the files get_files has yielded so far
Yielded == IF pc = "start" THEN {} ELSE get_files(args.path) \ pending

\* the lines whose first character after leading whitespace is # or *, or
\* whose first two are //
MarkerLines ==
    {line \in AllLines :
       \E i \in 1..Len(line) :
          /\ \A j \in 1..(i - 1) : IsSpace(Char(line, j))
          /\ \/ Char(line, i) = "#"
             \/ Char(line, i) = "*"
             \/ Char(line, i) = "/" /\ i < Len(line) /\ Char(line, i + 1) = "/"}

MarkerLine(line) == line \in MarkerLines

\* the rules of each catalog that re.search finds in the lower-cased line
FieldMatches ==
    [line \in AllLines |->
        {r \in 1..Len(PII_FIELD_PATTERNS) :
            Search(PII_FIELD_PATTERNS[r].pattern, Lower(line))}]

LogMatches ==
    [line \in AllLines |->
        {r \in 1..Len(LOG_PATTERNS) : Search(LOG_PATTERNS[r], Lower(line))}]

UnencryptedMatches ==
    [line \in AllLines |->
        {r \in 1..Len(UNENCRYPTED_PATTERNS) : Search(UNENCRYPTED_PATTERNS[r], Lower(line))}]

FieldRulesMatching(line) == FieldMatches[line]

LogRulesMatching(line) == LogMatches[line]

UnencryptedRulesMatching(line) == UnencryptedMatches[line]

\* the severities of the field rules, in catalog order
FieldRuleSeverities == [r \in 1..Len(PII_FIELD_PATTERNS) |-> PII_FIELD_PATTERNS[r].severity]

\* C6: no finding is ever emitted for a line whose trimmed form starts with
\* //, # or *; a run on a single file all of whose lines are such lines ends
\* with no findings and exit status 0.
C6_CommentLinesSkipped ==
    /\ \A k \in 1..Len(all_findings) :
          /\ all_findings[k].line \in 1..Len(LinesOf(PathOf(all_findings[k].file)))
          /\ ~MarkerLine(LinesOf(PathOf(all_findings[k].file))[all_findings[k].line])
    /\ (/\ pc = "done"
        /\ args.path \in tree
        /\ \A n \in 1..Len(LinesOf(args.path)) : MarkerLine(LinesOf(args.path)[n]))
       => findings = <<>> /\ exit_code = 0

\* C6 witness: a finished run on one readable, selected file made of comment
\* lines that name sensitive fields
C6_Witness ==
    /\ pc = "done"
    /\ args.path \in tree \ unreadable
    /\ get_files(args.path) = {args.path}
    /\ \A n \in 1..Len(LinesOf(args.path)) :
          /\ MarkerLine(LinesOf(args.path)[n])
          /\ FieldMatches[LinesOf(args.path)[n]] # {}
    /\ findings = <<>>
    /\ exit_code = 0

HasDeniedSegment(path) == \E k \in 1..Len(path) : path[k] \in SKIP_DIRS

HasAllowedExtension(path) == Lower(Suffix(path)) \in SCAN_EXTENSIONS

\* C7: every file get_files yields has an allowed extension (compared in
\* lower case) and no denied path segment; so has the file of every finding;
\* a run on a directory whose files all have a denied segment has no findings.
C7_OnlySelectedFiles ==
    /\ pc # "start" =>
          \A path \in get_files(args.path) :
              HasAllowedExtension(path) /\ ~HasDeniedSegment(path)
    /\ \A k \in 1..Len(all_findings) :
          /\ HasAllowedExtension(PathOf(all_findings[k].file))
          /\ ~HasDeniedSegment(PathOf(all_findings[k].file))
    /\ (/\ pc = "done"
        /\ \E path \in tree : IsBelow(path, args.path)
        /\ \A path \in tree : IsBelow(path, args.path) => HasDeniedSegment(path))
       => all_findings = <<>> /\ findings = <<>>

\* C7 witness: a finished run on a directory that holds only a readable
\* source file with sensitive content under a denied directory
C7_Witness ==
    /\ pc = "done"
    /\ unreadable = {}
    /\ \E path \in tree :
          /\ IsBelow(path, args.path)
          /\ HasAllowedExtension(path)
          /\ Scanned[path] # <<>>
    /\ \A path \in tree : IsBelow(path, args.path) /\ HasDeniedSegment(path)
    /\ findings = <<>>
    /\ exit_code = 0

\* the findings the content of each file gives when it is read
ContentFindings == [path \in AllPaths |-> ScanContent(Join(path), Content(path))]

\* C8: a file whose read fails contributes no finding and one warning; every
\* other yielded file contributes exactly the findings of its content; the
\* run still prints one report and exits with the status of the final
\* findings.
C8_ReadFailureIsLocal ==
    /\ \A path \in Yielded \cap unreadable : OfFile(all_findings, path) = <<>>
    /\ \A path \in Yielded \ unreadable :
          OfFile(all_findings, path) = ContentFindings[path]
    /\ Len(stderr) = Cardinality(Yielded \cap unreadable)
    /\ \A path \in Yielded \cap unreadable :
          \E k \in 1..Len(stderr) : stderr[k] = "Warning: Could not read " \o Join(path)
    /\ pc = "done" =>
          /\ pending = {}
          /\ Len(stdout) = 1
          /\ exit_code = (IF NoCriticalOrHigh(findings) THEN 0 ELSE 1)

\* C8 witness: a finished run in which one yielded file with sensitive content
\* could not be read and another yielded file gave findings
C8_Witness ==
    /\ pc = "done"
    /\ \E bad \in Yielded \cap unreadable : Scanned[bad] # <<>>
    /\ \E good \in Yielded \ unreadable : OfFile(all_findings, good) # <<>>
    /\ Len(stderr) = 1
    /\ Len(stdout) = 1
    /\ exit_code = 1

\* the findings of fs at line n with category cat: their severities, in order
SeveritiesAt(fs, n, cat) ==
    LET at == Restrict(fs, {k \in 1..Len(fs) : fs[k].line = n /\ fs[k].category = cat})
    IN  [k \in 1..Len(at) |-> at[k].severity]

\* C9: for every scanned file and every line of it that is not a comment
\* line, the findings at that line are one pii_field finding per matching
\* field rule with that rule's severity, one pii_in_logs finding of severity
\* high per matching log rule and one unencrypted_pii finding of severity
\* critical per matching storage rule, and there are no findings at other line
\* numbers; in the raw and the final findings pii_in_logs implies high and
\* unencrypted_pii implies critical.
C9_OneFindingPerMatchingRule ==
    /\ \A path \in Yielded \ unreadable :
          LET got == OfFile(all_findings, path)
              lines == LinesOf(path)
          IN  /\ \A k \in 1..Len(got) : got[k].line \in 1..Len(lines)
              /\ \A n \in 1..Len(lines) :
                    ~MarkerLine(lines[n]) =>
                        /\ SeveritiesAt(got, n, "pii_field")
                              = Restrict(FieldRuleSeverities, FieldRulesMatching(lines[n]))
                        /\ SeveritiesAt(got, n, "pii_in_logs")
                              = [k \in 1..Cardinality(LogRulesMatching(lines[n])) |-> "high"]
                        /\ SeveritiesAt(got, n, "unencrypted_pii")
                              = [k \in 1..Cardinality(UnencryptedRulesMatching(lines[n]))
                                    |-> "critical"]
    /\ \A fs \in {all_findings, findings} :
          \A k \in 1..Len(fs) :
              /\ fs[k].category \in Categories
              /\ fs[k].category = "pii_in_logs" => fs[k].severity = "high"
              /\ fs[k].category = "unencrypted_pii" => fs[k].severity = "critical"

\* C9 witness: a scanned file with a line that gave findings of two categories,
\* a line with two pii_in_logs findings, and final findings of all categories
C9_Witness ==
    /\ pc = "done"
    /\ \E path \in Yielded \ unreadable :
          \E n \in 1..Len(LinesOf(path)) :
              /\ Cardinality(LogRulesMatching(LinesOf(path)[n])) = 2
              /\ FieldRulesMatching(LinesOf(path)[n]) # {}
              /\ Len(SeveritiesAt(OfFile(all_findings, path), n, "pii_in_logs")) = 2
    /\ \A cat \in Categories : \E k \in 1..Len(findings) : findings[k].category = cat

\* C10: if the scanner emitted a critical or high finding at or above the
\* threshold, the final findings hold a critical or high finding and the run
\* exits with status 1.
C10_DedupKeepsFailure ==
    (/\ pc = "done"
     /\ \E k \in 1..Len(all_findings) :
           /\ IsCriticalOrHigh(all_findings[k])
           /\ Rank(all_findings[k].severity) <= Rank(args.severity))
    => /\ \E k \in 1..Len(findings) : IsCriticalOrHigh(findings[k])
       /\ exit_code = 1

=============================================================================
